---- MODULE Spec2Model ----
(***************************************************************************)
(* Batch renormalization (chainer/functions/normalization/                 *)
(* batch_renormalization.py) and 2-D convolution (chainer/functions/       *)
(* connection/convolution_2d.py) as state machines.                        *)
(*                                                                         *)
(* Array arithmetic is modelled over the reals: a scalar is an exact       *)
(* rational <<n, d>>, and a value that went through a square root is a     *)
(* "surd" [sg, sq] = sg * sqrt(sq), so that sqrt, division and clip are    *)
(* exact and comparisons are decidable.                                    *)
(***************************************************************************)
EXTENDS Integers, Sequences, FiniteSets, TLC

(* ------------------------------------------------------------------ *)
(* Bounds of the model                                                 *)
(* ------------------------------------------------------------------ *)
\* number of operator calls in one behaviour of the batch renormalization model
MaxCalls == 2

(* ------------------------------------------------------------------ *)
(* Rational numbers                                                    *)
(* ------------------------------------------------------------------ *)
Abs(a) == IF a < 0 THEN 0 - a ELSE a

RECURSIVE GCD(_, _)
GCD(a, b) == IF b = 0 THEN a ELSE GCD(b, a % b)

Norm(n, d) ==
  LET g == GCD(Abs(n), Abs(d))
      s == IF d < 0 THEN 0 - 1 ELSE 1
  IN  <<(s * n) \div g, (s * d) \div g>>

Rat(n) == <<n, 1>>
Frac(n, d) == Norm(n, d)
Zero == Rat(0)
One == Rat(1)
Half == Frac(1, 2)

RAdd(a, b) == Norm(a[1] * b[2] + b[1] * a[2], a[2] * b[2])
RNeg(a) == <<0 - a[1], a[2]>>
RSub(a, b) == RAdd(a, RNeg(b))
RMul(a, b) == Norm(a[1] * b[1], a[2] * b[2])
RDiv(a, b) == Norm(a[1] * b[2], a[2] * b[1])
RLe(a, b) == a[1] * b[2] <= b[1] * a[2]
RLt(a, b) == a[1] * b[2] < b[1] * a[2]
RSign(a) == IF a[1] > 0 THEN 1 ELSE IF a[1] < 0 THEN 0 - 1 ELSE 0
RMax(a, b) == IF RLe(a, b) THEN b ELSE a

RECURSIVE RSum(_)
RSum(s) == IF s = <<>> THEN Zero ELSE RAdd(Head(s), RSum(Tail(s)))

(* ------------------------------------------------------------------ *)
(* Surds: sg * sqrt(sq) with sg in {-1, 0, 1} and sq a rational >= 0   *)
(* ------------------------------------------------------------------ *)
Surd(a) == [sg |-> RSign(a), sq |-> RMul(a, a)]
\* what floating-point division by zero yields (inf, -inf or nan), as one value
\* that every product, quotient and sum it enters yields again; sg = 2 marks it.
\* No quotient by a value that is not finite is formed by the code modelled.
NonFinite == [sg |-> 2, sq |-> Zero]
IsFinite(a) == a.sg # 2
SZero == Surd(Zero)
SOne == Surd(One)
\* xp.sqrt of a rational >= 0
Sqrt(q) == [sg |-> RSign(q), sq |-> q]
SNeg(a) == IF IsFinite(a) THEN [sg |-> 0 - a.sg, sq |-> a.sq] ELSE NonFinite
SMul(a, b) ==
  IF IsFinite(a) /\ IsFinite(b)
  THEN [sg |-> a.sg * b.sg, sq |-> RMul(a.sq, b.sq)]
  ELSE NonFinite
SDiv(a, b) ==
  IF IsFinite(a) /\ IsFinite(b) /\ b.sg # 0
  THEN [sg |-> a.sg * b.sg, sq |-> RDiv(a.sq, b.sq)]
  ELSE NonFinite
SLe(a, b) ==
  IF a.sg # b.sg THEN a.sg < b.sg
  ELSE IF a.sg = 1 THEN RLe(a.sq, b.sq)
  ELSE IF a.sg = 0 THEN TRUE
  ELSE RLe(b.sq, a.sq)
SMax(a, b) == IF SLe(a, b) THEN b ELSE a
SMin(a, b) == IF SLe(a, b) THEN a ELSE b

\* a sequence built by a constructor, evaluated once
Arr(f) == f \o <<>>

\* the concatenation of a sequence of sequences
RECURSIVE Flatten(_)
Flatten(rows) == IF rows = <<>> THEN <<>> ELSE Head(rows) \o Flatten(Tail(rows))

\* the square root of a rational that is the square of a rational
ISqrt(n) == CHOOSE k \in 0..n : k * k = n
RSqrt(q) == <<ISqrt(q[1]), ISqrt(q[2])>>
\* the sum of surds that are rational multiples of one radical: each non-zero
\* term is written as a rational multiple of the first one
SSum(ts) ==
  LET nz == SelectSeq(ts, LAMBDA t : t.sg # 0)
      t0 == nz[1]
      k == RSum(Arr([i \in 1..Len(nz) |->
                 RMul(Rat(nz[i].sg * t0.sg), RSqrt(RDiv(nz[i].sq, t0.sq)))]))
  IN  IF \E i \in 1..Len(ts) : ~IsFinite(ts[i]) THEN NonFinite
      ELSE IF nz = <<>> THEN SZero
      ELSE SMul(Surd(k), t0)

\* a sum of surds that is not itself a surd is kept as the sequence of its
\* non-zero terms, in the order the code adds them
Terms(ts) == SelectSeq(ts, LAMBDA t : t.sg # 0)
TScale(g, ts) == Terms(Arr([i \in 1..Len(ts) |-> SMul(g, ts[i])]))

(* ------------------------------------------------------------------ *)
(* 1-d arrays (per-channel vectors) with numpy broadcasting            *)
(* ------------------------------------------------------------------ *)
\* None, and an attribute that was never assigned; an array is a non-empty sequence
None == <<>>
Unset == <<>>

\* length of the broadcast of two 1-d shapes; 0 when they do not broadcast
BShape(la, lb) ==
  IF la = lb THEN la
  ELSE IF la = 1 THEN lb
  ELSE IF lb = 1 THEN la
  ELSE 0

At(a, i) == IF Len(a) = 1 THEN a[1] ELSE a[i]

zeros_like(a) == Arr([i \in 1..Len(a) |-> Zero])
ones_like(a) == Arr([i \in 1..Len(a) |-> One])

\* a *= k for a scalar k
IMulScalar(a, k) == Arr([i \in 1..Len(a) |-> RMul(a[i], k)])
\* a += b is defined only when b broadcasts to the shape of a
CanIAdd(a, b) == BShape(Len(a), Len(b)) = Len(a)
IAdd(a, b) == Arr([i \in 1..Len(a) |-> RAdd(a[i], At(b, i))])

(* ------------------------------------------------------------------ *)
(* Batch renormalization: the operator instance                        *)
(* ------------------------------------------------------------------ *)
\* A reference to a running-statistics array: obj tells whose array object the
\* attribute is bound to ("caller": the array the caller passed in, "own": an
\* array this instance allocated, "None": no array); val is its contents (<<>>
\* for None and for a 0-d object array wrapping None).
NoArray == [obj |-> "None", val |-> None]
CallerArray(a) == IF a = None THEN NoArray ELSE [obj |-> "caller", val |-> a]

\* BatchRenormalizationFunction.__init__
BatchRenormalizationFunction(eps, mean, var, train, decay, rmax, dmax, keep_r_d_fixed) ==
  [ running_mean |-> mean, running_var |-> var,
    rmax |-> rmax, dmax |-> dmax,
    r |-> None, d |-> None,
    keep_r_d_fixed |-> keep_r_d_fixed,
    train |-> train, eps |-> eps, decay |-> decay,
    fixed_mean |-> Unset, fixed_var |-> Unset,
    std |-> Unset, x_hat |-> Unset, x_hat_renorm |-> Unset ]

\* xp.array(a): a new array with the contents of a
xp_array(a) == [obj |-> "own", val |-> a.val]

\* xp.zeros_like(gamma) bound to an attribute
new_zeros(gamma) == [obj |-> "own", val |-> zeros_like(gamma)]

check_type_forward(inputs) ==
  /\ Len(inputs) \in {3, 5}
  /\ LET x == inputs[1]
         gamma == inputs[2]
         beta == inputs[3]
     IN  /\ \A n \in 1..Len(x) : Len(x[n]) = Len(gamma)
         /\ Len(gamma) = Len(beta)
         /\ Len(inputs) = 5 =>
              /\ Len(inputs[4]) = Len(gamma)
              /\ Len(inputs[5]) = Len(gamma)

\* x.mean(axis=0) of an (N, C) batch
x_mean(x) ==
  Arr([c \in 1..Len(x[1]) |->
     RDiv(RSum(Arr([n \in 1..Len(x) |-> x[n][c]])), Rat(Len(x)))])

\* x.var(axis=0): the biased variance
x_var(x) ==
  LET mu == x_mean(x)
  IN  Arr([c \in 1..Len(x[1]) |->
         RDiv(RSum(Arr([n \in 1..Len(x) |->
                      RMul(RSub(x[n][c], mu[c]), RSub(x[n][c], mu[c]))])),
              Rat(Len(x)))])

\* _xhat(x, mean, std, expander)
_xhat(x, mean, std) ==
  Arr([n \in 1..Len(x) |->
     Arr([c \in 1..Len(x[n]) |-> SDiv(Surd(RSub(x[n][c], At(mean, c))), At(std, c))])])

\* xp.clip(a, lo, hi) = minimum(maximum(a, lo), hi)
clip(a, lo, hi) == SMin(SMax(a, lo), hi)

\* forward, lines 89-99: the statistics the call works with
bind_statistics(s0, inputs) ==
  IF s0.train
  THEN IF s0.running_mean.obj = "None"
       THEN [s0 EXCEPT !.running_mean = new_zeros(inputs[2]),
                       !.running_var = new_zeros(inputs[2])]
       ELSE [s0 EXCEPT !.running_mean = xp_array(s0.running_mean),
                       !.running_var = xp_array(s0.running_var)]
  ELSE IF Len(inputs) = 5
       THEN [s0 EXCEPT !.fixed_mean = inputs[4], !.fixed_var = inputs[5]]
       ELSE s0

\* forward, lines 121-124 and 128: the variance the call normalizes with; eps is
\* added to the array in place
var_plus_eps(v, eps) == Arr([c \in 1..Len(v) |-> RAdd(v[c], eps)])

\* variant of statistics: the mode chosen by the number of inputs
statistics_by_arity(s, inputs) ==
  IF Len(inputs) = 3
  THEN <<x_mean(inputs[1]), var_plus_eps(x_var(inputs[1]), s.eps)>>
  ELSE <<inputs[4], var_plus_eps(inputs[5], s.eps)>>

\* forward, lines 120-128: <<mean, var>> the call normalizes with, selected by
\* the train flag of the instance
statistics(s, inputs) ==
  IF s.train
  THEN <<x_mean(inputs[1]), var_plus_eps(x_var(inputs[1]), s.eps)>>
  ELSE <<s.fixed_mean, var_plus_eps(s.fixed_var, s.eps)>>

\* forward, line 131
running_sigma_of(running_var, eps) ==
  Arr([c \in 1..Len(running_var) |-> Sqrt(RAdd(running_var[c], eps))])

\* variant of r_of: the upper bound of the clip is dropped
r_of_no_upper_bound(std, running_sigma, rmax) ==
  SMax(SDiv(std, running_sigma), Surd(RDiv(One, rmax)))

\* forward, lines 132-133, one channel
r_of(std, running_sigma, rmax) ==
  clip(SDiv(std, running_sigma), Surd(RDiv(One, rmax)), Surd(rmax))

\* variant of d_of: the quotient is not clipped
d_of_unclipped(mean, running_mean, running_sigma, dmax) ==
  SDiv(Surd(RSub(mean, running_mean)), running_sigma)

\* forward, lines 134-135, one channel
d_of(mean, running_mean, running_sigma, dmax) ==
  clip(SDiv(Surd(RSub(mean, running_mean)), running_sigma),
       Surd(RNeg(dmax)), Surd(dmax))

\* forward, lines 185-186
adjust_of(m) == RDiv(Rat(m), RMax(RSub(Rat(m), One), One))

\* variant of temp_ar_mean: the batch mean weighted by decay
temp_ar_mean_by_decay(mean, decay) == IMulScalar(mean, decay)

\* forward, lines 188-189
temp_ar_mean(mean, decay) == IMulScalar(mean, RSub(One, decay))

\* forward, lines 193-194
temp_ar_var(var, decay, adjust) == IMulScalar(var, RMul(RSub(One, decay), adjust))

\* the result of a call: the instance after it, the output, and the statement
\* that raised ("" when the call returned)
Ok(s, y) == [self |-> s, y |-> y, raised |-> ""]
Raise(s, at) == [self |-> s, y |-> None, raised |-> at]

\* forward, lines 180-196, the running variance: two statements in place
update_running_var(s, y, var, adjust) ==
  LET rv == s.running_var.val
      rv1 == IMulScalar(rv, s.decay)
      temp_ar == temp_ar_var(var, s.decay, adjust)
  IN  IF rv = None
        THEN Raise(s, "self.running_var *= self.decay")
      ELSE IF ~CanIAdd(rv1, temp_ar)
        THEN Raise([s EXCEPT !.running_var.val = rv1], "self.running_var += temp_ar")
      ELSE Ok([s EXCEPT !.running_var.val = IAdd(rv1, temp_ar)], y)

\* forward, lines 180-196, the running mean: two statements in place, then
\* the running variance
update_running_mean(s, y, mean, var, adjust) ==
  LET rm1 == IMulScalar(s.running_mean.val, s.decay)
      temp_ar == temp_ar_mean(mean, s.decay)
  IN  IF ~CanIAdd(rm1, temp_ar)
        THEN Raise([s EXCEPT !.running_mean.val = rm1], "self.running_mean += temp_ar")
      ELSE update_running_var([s EXCEPT !.running_mean.val = IAdd(rm1, temp_ar)],
                              y, var, adjust)

\* forward, lines 166-167 and 180-197: the output, then the update of the
\* running statistics in training mode
forward_output(s, inputs, mean, var, y_shape) ==
  LET x == inputs[1]
      gamma == inputs[2]
      beta == inputs[3]
      y == Arr([n \in 1..Len(x) |->
              Arr([c \in 1..y_shape |->
                 Terms(TScale(Surd(At(gamma, c)), s.x_hat_renorm[n][c])
                       \o <<Surd(At(beta, c))>>)])])
      m == (Len(x) * Len(x[1])) \div Len(gamma)
  IN  IF ~s.train THEN Ok(s, y)
      ELSE update_running_mean(s, y, mean, var, adjust_of(m))

\* forward, lines 164-165
forward_renorm(s, inputs, mean, var, y_shape) ==
  forward_output(
    [s EXCEPT !.x_hat_renorm =
       Arr([n \in 1..Len(inputs[1]) |->
          Arr([c \in 1..y_shape |->
             Terms(<<SMul(At(s.x_hat[n], c), At(s.r, c)), At(s.d, c)>>)])])],
    inputs, mean, var, y_shape)

\* forward, lines 159-163
forward_normalize(s, inputs, mean, var) ==
  LET y_shape == BShape(BShape(Len(inputs[2]), Len(s.r)), Len(s.d))
      s5 == [s EXCEPT !.x_hat = _xhat(inputs[1], mean, s.std)]
  IN  IF y_shape = 0
        THEN Raise(s5, "self.x_hat_renorm = self.x_hat * self.r + self.d")
      ELSE forward_renorm(s5, inputs, mean, var, y_shape)

\* forward, lines 132-135 and 150-151: r and d of training mode
forward_clip(s, inputs, mean, var, running_sigma) ==
  LET r_shape == BShape(Len(s.std), Len(running_sigma))
      d_shape == BShape(BShape(Len(mean), Len(s.running_mean.val)), Len(running_sigma))
  IN  IF r_shape = 0
        THEN Raise(s, "r = xp.clip(self.std / running_sigma)")
      ELSE IF d_shape = 0
        THEN Raise(s, "d = xp.clip((mean - self.running_mean) / running_sigma)")
      ELSE forward_normalize(
             [s EXCEPT !.r = Arr([c \in 1..r_shape |->
                               r_of(At(s.std, c), At(running_sigma, c), s.rmax)]),
                       !.d = Arr([c \in 1..d_shape |->
                               d_of(At(mean, c), At(s.running_mean.val, c),
                                    At(running_sigma, c), s.dmax)])],
             inputs, mean, var)

\* variant of forward_r_d: r and d are taken from the running variance as the
\* update of this call leaves it
forward_r_d_after_update(s, inputs, mean, var) ==
  IF s.keep_r_d_fixed /\ s.r # None
    THEN forward_normalize(s, inputs, mean, var)
  ELSE IF ~s.train
    THEN forward_normalize([s EXCEPT !.r = Arr([c \in 1..Len(inputs[2]) |-> SOne]),
                                     !.d = Arr([c \in 1..Len(inputs[2]) |-> SZero])],
                           inputs, mean, var)
  ELSE IF s.running_var.val = None
    THEN Raise(s, "running_sigma = xp.sqrt(self.running_var + self.eps)")
  ELSE forward_clip(s, inputs, mean, var,
         running_sigma_of(
           IAdd(IMulScalar(s.running_var.val, s.decay),
                temp_ar_var(var, s.decay,
                            adjust_of((Len(inputs[1]) * Len(inputs[1][1]))
                                      \div Len(inputs[2])))),
           s.eps))

\* variant of forward_r_d: keep_r_d_fixed is not looked at
forward_r_d_every_call(s, inputs, mean, var) ==
  IF ~s.train
    THEN forward_normalize([s EXCEPT !.r = Arr([c \in 1..Len(inputs[2]) |-> SOne]),
                                     !.d = Arr([c \in 1..Len(inputs[2]) |-> SZero])],
                           inputs, mean, var)
  ELSE IF s.running_var.val = None
    THEN Raise(s, "running_sigma = xp.sqrt(self.running_var + self.eps)")
  ELSE forward_clip(s, inputs, mean, var, running_sigma_of(s.running_var.val, s.eps))

\* forward, lines 129-151
forward_r_d(s, inputs, mean, var) ==
  IF s.keep_r_d_fixed /\ s.r # None
    THEN forward_normalize(s, inputs, mean, var)
  ELSE IF ~s.train
    THEN forward_normalize([s EXCEPT !.r = Arr([c \in 1..Len(inputs[2]) |-> SOne]),
                                     !.d = Arr([c \in 1..Len(inputs[2]) |-> SZero])],
                           inputs, mean, var)
  ELSE IF s.running_var.val = None
    THEN Raise(s, "running_sigma = xp.sqrt(self.running_var + self.eps)")
  ELSE forward_clip(s, inputs, mean, var, running_sigma_of(s.running_var.val, s.eps))

\* forward, line 128
forward_std(s, inputs, mean, var) ==
  forward_r_d([s EXCEPT !.std = Arr([c \in 1..Len(var) |-> Sqrt(var[c])])],
              inputs, mean, var)

\* forward, lines 120-127
forward_statistics(s, inputs) ==
  IF (~s.train) /\ s.fixed_mean = Unset
    THEN Raise(s, "mean = self.fixed_mean")
  ELSE forward_std(s, inputs, statistics(s, inputs)[1], statistics(s, inputs)[2])

\* BatchRenormalizationFunction.forward (the numpy path): the statements of the
\* method in their order, each stage handing the instance to the next
forward(s0, inputs) == forward_statistics(bind_statistics(s0, inputs), inputs)

\* Function.__call__: the type check, then forward
apply(s, inputs) ==
  IF check_type_forward(inputs)
  THEN forward(s, inputs)
  ELSE Raise(s, "check_type_forward")

\* the result of backward: the gradients returned, or the statement that raised
Grads(ret) == [ret |-> ret, raised |-> ""]
GradRaise(at) == [ret |-> <<>>, raised |-> at]

\* gy.sum(axis=axis) of an (N, C) array
gbeta_of(gy) ==
  Arr([c \in 1..Len(gy[1]) |-> Surd(RSum(Arr([n \in 1..Len(gy) |-> gy[n][c]])))])

\* (gy * x_hat).sum(axis=axis)
gy_x_hat_sum(gy, x_hat) ==
  Arr([c \in 1..Len(gy[1]) |->
     SSum(Arr([n \in 1..Len(gy) |-> SMul(Surd(gy[n][c]), x_hat[n][c])]))])

\* backward, line 212: the std of the 5-input branch
backward_std(var) == Arr([c \in 1..Len(var) |-> Sqrt(var[c])])

\* backward, lines 213-220: the five gradients of the 5-input branch from std
backward_fixed_gradients(x, gamma, mean, var, std, gy, gbeta, ggamma) ==
  LET gs == Arr([c \in 1..Len(gamma) |-> SDiv(Surd(gamma[c]), std[c])])
      gmean == Arr([c \in 1..Len(gamma) |-> SMul(SNeg(gs[c]), gbeta[c])])
      gvar == Arr([c \in 1..Len(gamma) |->
                 SMul(SDiv(SMul(Surd(RNeg(Half)), Surd(gamma[c])), Surd(var[c])),
                      ggamma[c])])
      gx == Arr([n \in 1..Len(gy) |->
               Arr([c \in 1..Len(gy[n]) |-> SMul(gs[c], Surd(gy[n][c]))])])
  IN  <<gx, ggamma, gbeta, gmean, gvar>>

backward_fixed(x, gamma, mean, var, std, gy) ==
  backward_fixed_gradients(x, gamma, mean, var, std, gy, gbeta_of(gy),
                           gy_x_hat_sum(gy, _xhat(x, mean, std)))

\* backward, lines 227-232: ggamma and gx of the branch for 3 inputs, from the
\* x_hat, x_hat_renorm, std and r the last forward call left on the instance
backward_train_gradients(s, gamma, gy, m, gbeta, gsigma_batch) ==
  LET ggamma == Arr([c \in 1..Len(gy[1]) |->
                  Terms(Flatten(Arr([n \in 1..Len(gy) |->
                     TScale(Surd(gy[n][c]), s.x_hat_renorm[n][c])])))])
      scale == Arr([c \in 1..Len(gamma) |->
                 SDiv(SMul(At(s.r, c), Surd(gamma[c])), s.std[c])])
      gx == Arr([n \in 1..Len(gy) |->
               Arr([c \in 1..Len(gy[n]) |->
                  TScale(scale[c],
                         << Surd(gy[n][c]),
                            SNeg(SDiv(SMul(s.x_hat[n][c], gsigma_batch[c]), Surd(Rat(m)))),
                            SNeg(SDiv(gbeta[c], Surd(Rat(m)))) >>)])])
  IN  <<gx, ggamma, gbeta>>

backward_train(s, gamma, gy, m) ==
  backward_train_gradients(s, gamma, gy, m, gbeta_of(gy), gy_x_hat_sum(gy, s.x_hat))

\* BatchRenormalizationFunction.backward (the numpy path)
backward(s, inputs, grad_outputs) ==
  LET x == inputs[1]
      gamma == inputs[2]
      gy == grad_outputs[1]
      m == (Len(x) * Len(x[1])) \div Len(gamma)
  IN  IF Len(inputs) = 5
        THEN Grads(backward_fixed(x, gamma, inputs[4], inputs[5],
                                  backward_std(inputs[5]), gy))
      ELSE IF ~s.train
        THEN GradRaise("assert self.train")
      ELSE Grads(backward_train(s, gamma, gy, m))

(* ------------------------------------------------------------------ *)
(* Batch renormalization: inputs and actions                           *)
(* ------------------------------------------------------------------ *)
Vec(ints) == Arr([i \in 1..Len(ints) |-> Rat(ints[i])])
Mat(rows) == Arr([n \in 1..Len(rows) |-> Vec(rows[n])])

\* (N, C) batches with C = 2 channels; the second one has N = 1
Batches == { Mat(<< <<0, 1>>, <<2, 1>> >>),
             Mat(<< <<1, 3>> >>),
             Mat(<< <<0, 0>>, <<0, 4>> >>) }
\* the batches passed to batch_renormalization
ApiBatches == { Mat(<< <<0, 1>>, <<2, 1>> >>), Mat(<< <<1, 3>> >>) }
Gammas == { Vec(<<1, 2>>) }
Betas == { Vec(<<0, 1>>) }
\* a beta whose shape differs from gamma's fails the type check
BadBetas == { Vec(<<0>>) }
FixedMeans == { Vec(<<1, 0>>) }
FixedVars == { Vec(<<3, 0>>) }
\* <<running_mean, running_var>> the caller may hold: absent, of gamma's shape,
\* or of shape (1,)
CallerStats == { <<None, None>>,
                 <<Vec(<<0, 0>>), Vec(<<1, 1>>)>>,
                 <<Vec(<<1, 2>>), Vec(<<3, 0>>)>>,
                 <<None, Vec(<<1, 1>>)>>,
                 <<Vec(<<0, 0>>), None>>,
                 <<Vec(<<0, 0>>), Vec(<<1>>)>>,
                 <<Vec(<<1>>), Vec(<<1, 1>>)>> }
EpsVal == One
Decays == { Zero, Half, One }
\* <<rmax, dmax>>
RDMax == { <<One, Zero>>, <<Rat(2), One>> }
\* the constructor arguments <<train, decay, rmax, dmax, keep_r_d_fixed>> of the
\* instances that are called directly
InitParams ==
  { <<TRUE, decay, rd[1], rd[2], FALSE>> : decay \in Decays, rd \in RDMax }
  \cup { <<TRUE, Half, Rat(2), One, TRUE>>, <<TRUE, Zero, One, Zero, TRUE>>,
         <<FALSE, Zero, One, Zero, FALSE>>, <<FALSE, Half, Rat(2), One, TRUE>> }
\* <<rmax, dmax, decay>> passed to batch_renormalization
ApiParams == { <<One, Zero, Zero>>, <<Rat(2), One, Half>> }

Inputs3 ==
  { <<x, gamma, beta>> : x \in Batches, gamma \in Gammas, beta \in Betas }
  \cup { <<Mat(<< <<1, 3>> >>), gamma, beta>> : gamma \in Gammas, beta \in BadBetas }
Inputs5 == { <<x, gamma, beta, mean, var>> :
               x \in { Mat(<< <<0, 1>>, <<2, 1>> >>) }, gamma \in Gammas, beta \in Betas,
               mean \in FixedMeans, var \in FixedVars }
\* the gradients gy of the output handed to backward, of shape (N, C)
GradOutputs == { Mat(<< <<1, 0>>, <<0, 1>> >>),
                 Mat(<< <<1, 2>>, <<3, 1>> >>),
                 Mat(<< <<1, 2>> >>) }

\* self: the operator instance in use; caller_mean, caller_var: the caller's
\* running-statistics arrays; hist: the calls made so far, each with the
\* instance before (pre) and after (post) it
VARIABLES self, caller_mean, caller_var, hist

\* conv: the Convolution2DFunction instance in use (with the inputs it retains);
\* conv_out: the outcome of the last call made on it
VARIABLES conv, conv_out

\* bwd: the outcome of the backward pass through the last call in hist
VARIABLE bwd

bn_vars == <<self, caller_mean, caller_var, hist, bwd>>
conv_vars == <<conv, conv_out>>
vars == <<self, caller_mean, caller_var, hist, bwd, conv, conv_out>>

\* no convolution is under way
NoConv == [op |-> "none"]
\* no backward pass was made through the last call
NoBackward == [op |-> "none"]

InitBN ==
  /\ \E stats \in CallerStats :
       /\ caller_mean = stats[1]
       /\ caller_var = stats[2]
  /\ \E p \in InitParams :
       self = BatchRenormalizationFunction(EpsVal, CallerArray(caller_mean),
                                           CallerArray(caller_var), p[1], p[2],
                                           p[3], p[4], p[5])
  /\ hist = <<>>
  /\ bwd = NoBackward
  /\ conv = NoConv
  /\ conv_out = NoConv

\* the effect of one call on the program state: the instance, and the caller's
\* arrays when an attribute of the instance is bound to them
Commit(op, pre, inputs, res) ==
  /\ self' = res.self
  /\ caller_mean' = IF res.self.running_mean.obj = "caller"
                    THEN res.self.running_mean.val ELSE caller_mean
  /\ caller_var' = IF res.self.running_var.obj = "caller"
                   THEN res.self.running_var.val ELSE caller_var
  /\ hist' = Append(hist, [op |-> op, inputs |-> inputs, pre |-> pre,
                           post |-> res.self, raised |-> res.raised, y |-> res.y])
  /\ bwd' = NoBackward
  /\ UNCHANGED conv_vars

\* a call of the existing instance with 3 inputs (x, gamma, beta)
Call3(inputs) ==
  /\ Len(hist) < MaxCalls
  /\ Commit("__call__", self, inputs, apply(self, inputs))

\* a call of the existing instance with 5 inputs (x, gamma, beta, mean, var)
Call5(inputs) ==
  /\ Len(hist) < MaxCalls
  /\ Commit("__call__", self, inputs, apply(self, inputs))

batch_renormalization(x, gamma, beta, rmax, dmax, decay) ==
  /\ Len(hist) < MaxCalls
  /\ LET fn == BatchRenormalizationFunction(EpsVal, CallerArray(caller_mean),
                                            CallerArray(caller_var), TRUE, decay,
                                            rmax, dmax, FALSE)
     IN  Commit("batch_renormalization", fn, <<x, gamma, beta>>,
                apply(fn, <<x, gamma, beta>>))

fixed_batch_normalization(x, gamma, beta, mean, var) ==
  /\ Len(hist) < MaxCalls
  /\ LET fn == BatchRenormalizationFunction(EpsVal, NoArray, NoArray, FALSE, Zero,
                                            One, Zero, FALSE)
     IN  Commit("fixed_batch_normalization", fn, <<x, gamma, beta, mean, var>>,
                apply(fn, <<x, gamma, beta, mean, var>>))

\* the backward pass through the last call, which returned: backward is given
\* the inputs of that call and a gradient gy of the shape of its output
Backward(gy) ==
  /\ hist # <<>>
  /\ hist[Len(hist)].raised = ""
  /\ Len(gy) = Len(hist[Len(hist)].y)
  /\ bwd' = [op |-> "backward", inputs |-> hist[Len(hist)].inputs, gy |-> gy,
             res |-> backward(self, hist[Len(hist)].inputs, <<gy>>)]
  /\ UNCHANGED <<self, caller_mean, caller_var, hist>>
  /\ UNCHANGED conv_vars

NextBN ==
  \/ \E gy \in GradOutputs : Backward(gy)
  \/ \E inputs \in Inputs3 : Call3(inputs)
  \/ \E inputs \in Inputs5 : Call5(inputs)
  \/ \E x \in ApiBatches, gamma \in Gammas, beta \in Betas, p \in ApiParams :
       batch_renormalization(x, gamma, beta, p[1], p[2], p[3])
  \/ \E inputs \in Inputs5 :
       fixed_batch_normalization(inputs[1], inputs[2], inputs[3], inputs[4], inputs[5])

Init == InitBN
Next == NextBN
Spec == Init /\ [][Next]_vars

(* ------------------------------------------------------------------ *)
(* 2-D convolution: tensors and the array primitives it is built on     *)
(* ------------------------------------------------------------------ *)

\* largest spatial extent of the inputs whose output size is explored
MaxSize == 5

\* an array: element type, shape and elements (nested sequences, row-major);
\* data = <<>> stands for an array whose elements are not followed, only its shape
Tensor(dtype, shape, data) == [dtype |-> dtype, shape |-> shape, data |-> data]
NoTensor == Tensor("", <<>>, <<>>)
Tracked(t) == t.data # <<>>
dtype_kind(dtype) == IF dtype \in {"float16", "float32", "float64"} THEN "f" ELSE "i"

RECURSIVE SumTo(_, _)
SumTo(f, n) == IF n = 0 THEN 0 ELSE f[n] + SumTo(f, n - 1)

\* size of one output dimension (chainer.utils.conv.get_conv_outsize)
get_conv_outsize(size, k, s, p, cover_all, d) ==
  LET reach == size + 2 * p - d * (k - 1) - 1
      out == (reach \div s) + 1
  IN  IF cover_all /\ reach % s # 0 THEN out + 1 ELSE out

\* chainer.utils.conv.im2col_cpu: columns of shape (n, c, kh, kw, out_h, out_w);
\* reads outside the image give zero; a non-positive output size is an error
im2col_cpu(x, kh, kw, sy, sx, ph, pw, cover_all, dy, dx) ==
  LET n == x.shape[1]
      c == x.shape[2]
      h == x.shape[3]
      w == x.shape[4]
      out_h == get_conv_outsize(h, kh, sy, ph, cover_all, dy)
      out_w == get_conv_outsize(w, kw, sx, pw, cover_all, dx)
      img(i, ch, iy, ix) == IF iy \in 1..h /\ ix \in 1..w THEN x.data[i][ch][iy][ix] ELSE 0
  IN  IF out_h <= 0 \/ out_w <= 0
      THEN [raised |-> TRUE, col |-> NoTensor]
      ELSE [raised |-> FALSE,
            col |-> Tensor(x.dtype, <<n, c, kh, kw, out_h, out_w>>,
              IF ~Tracked(x) THEN <<>> ELSE
              Arr([i \in 1..n |-> Arr([ch \in 1..c |-> Arr([ky \in 1..kh |->
                Arr([kx \in 1..kw |-> Arr([oy \in 1..out_h |-> Arr([ox \in 1..out_w |->
                  img(i, ch, (oy - 1) * sy + (ky - 1) * dy - ph + 1,
                             (ox - 1) * sx + (kx - 1) * dx - pw + 1)])])])])])]))]

\* numpy.tensordot(col, W, ((1, 2, 3), (1, 2, 3))): the axes must agree in length
can_tensordot(col, W) == SubSeq(col.shape, 2, 4) = SubSeq(W.shape, 2, 4)

tensordot(col, W) ==
  LET n == col.shape[1]
      c == col.shape[2]
      kh == col.shape[3]
      kw == col.shape[4]
      out_h == col.shape[5]
      out_w == col.shape[6]
      oC == W.shape[1]
  IN  Tensor(col.dtype, <<n, out_h, out_w, oC>>,
        IF ~(Tracked(col) /\ Tracked(W)) THEN <<>> ELSE
        Arr([i \in 1..n |-> Arr([oy \in 1..out_h |-> Arr([ox \in 1..out_w |->
          Arr([k \in 1..oC |->
            SumTo([ch \in 1..c |-> SumTo([ky \in 1..kh |-> SumTo([kx \in 1..kw |->
              col.data[i][ch][ky][kx][oy][ox] * W.data[k][ch][ky][kx]], kw)], kh)], c)])])])]))

\* y += b with y of shape (n, out_h, out_w, oC) and b of shape (oC,)
can_add_bias(y, b) == b.shape[1] \in {1, y.shape[4]}

add_bias(y, b) ==
  Tensor(y.dtype, y.shape,
    IF ~(Tracked(y) /\ Tracked(b)) THEN <<>> ELSE
    Arr([i \in 1..y.shape[1] |-> Arr([oy \in 1..y.shape[2] |-> Arr([ox \in 1..y.shape[3] |->
      Arr([k \in 1..y.shape[4] |->
        y.data[i][oy][ox][k] + b.data[IF b.shape[1] = 1 THEN 1 ELSE k]])])])]))

\* numpy.rollaxis(y, 3, 1): (n, out_h, out_w, oC) -> (n, oC, out_h, out_w)
rollaxis_3_1(y) ==
  Tensor(y.dtype, <<y.shape[1], y.shape[4], y.shape[2], y.shape[3]>>,
    IF ~Tracked(y) THEN <<>> ELSE
    Arr([i \in 1..y.shape[1] |-> Arr([k \in 1..y.shape[4] |-> Arr([oy \in 1..y.shape[2] |->
      Arr([ox \in 1..y.shape[3] |-> y.data[i][oy][ox][k]])])])]))

(* ------------------------------------------------------------------ *)
(* 2-D convolution: Convolution2DFunction                               *)
(* ------------------------------------------------------------------ *)

\* a scalar argument is written <<s>>, a pair <<a, b>>
_pair(x) == IF Len(x) = 2 THEN x ELSE <<x[1], x[1]>>

\* variant: the two strides are taken in the opposite order
Convolution2DFunction_stride_swapped(stride, pad, cover_all, group, dilate) ==
  [sy |-> _pair(stride)[2], sx |-> _pair(stride)[1],
   ph |-> _pair(pad)[1], pw |-> _pair(pad)[2],
   cover_all |-> cover_all,
   group |-> group,
   dy |-> _pair(dilate)[1], dx |-> _pair(dilate)[2]]

Convolution2DFunction(stride, pad, cover_all, group, dilate) ==
  [sy |-> _pair(stride)[1], sx |-> _pair(stride)[2],
   ph |-> _pair(pad)[1], pw |-> _pair(pad)[2],
   cover_all |-> cover_all,
   group |-> group,
   dy |-> _pair(dilate)[1], dx |-> _pair(dilate)[2]]

Convolution2DFunction_check_type_forward(in_types) ==
  /\ 2 <= Len(in_types)
  /\ Len(in_types) <= 3
  /\ dtype_kind(in_types[1].dtype) = "f"
  /\ dtype_kind(in_types[2].dtype) = "f"
  /\ Len(in_types[1].shape) = 4
  /\ Len(in_types[2].shape) = 4
  /\ Len(in_types) = 3 =>
       /\ in_types[3].dtype = in_types[1].dtype
       /\ Len(in_types[3].shape) = 1
       /\ in_types[3].shape[1] = in_types[2].shape[1]

\* outcome of a forward computation: the output, or the statement that raised,
\* together with the array computations that were carried out before
ConvOk(y, steps) == [raised |-> FALSE, at |-> "", y |-> y, steps |-> steps]
ConvRaise(at, steps) == [raised |-> TRUE, at |-> at, y |-> NoTensor, steps |-> steps]

_forward_cpu_core(fn, x, W, b) ==
  LET kh == W.shape[3]
      kw == W.shape[4]
      im == im2col_cpu(x, kh, kw, fn.sy, fn.sx, fn.ph, fn.pw, fn.cover_all, fn.dy, fn.dx)
      y == tensordot(im.col, W)
  IN  IF im.raised THEN ConvRaise("col = conv.im2col_cpu", <<>>)
      ELSE IF ~can_tensordot(im.col, W)
      THEN ConvRaise("y = numpy.tensordot", <<"im2col_cpu">>)
      ELSE IF b = NoTensor
      THEN ConvOk(rollaxis_3_1(y), <<"im2col_cpu", "tensordot">>)
      ELSE IF ~can_add_bias(y, b)
      THEN ConvRaise("y += b", <<"im2col_cpu", "tensordot">>)
      ELSE ConvOk(rollaxis_3_1(add_bias(y, b)), <<"im2col_cpu", "tensordot">>)

\* variant: the channels of the groups are interleaved (stacked along axis 2)
stack_reshape_interleaved(_ys, N, G, oCg) ==
  LET oH == _ys[1].shape[3]
      oW == _ys[1].shape[4]
  IN  Tensor(_ys[1].dtype, <<N, G * oCg, oH, oW>>,
        IF ~Tracked(_ys[1]) THEN <<>> ELSE
        Arr([i \in 1..N |-> Arr([k \in 1..(G * oCg) |->
          _ys[((k - 1) % G) + 1].data[i][((k - 1) \div G) + 1]])]))

\* y = xp.stack(_ys, axis=1); y = y.reshape((N, oC, oH, oW)): channel
\* (g - 1) * oCg + j of the output is channel j of group g
stack_reshape(_ys, N, G, oCg) ==
  LET oH == _ys[1].shape[3]
      oW == _ys[1].shape[4]
  IN  Tensor(_ys[1].dtype, <<N, G * oCg, oH, oW>>,
        IF ~Tracked(_ys[1]) THEN <<>> ELSE
        Arr([i \in 1..N |-> Arr([k \in 1..(G * oCg) |->
          _ys[((k - 1) \div oCg) + 1].data[i][((k - 1) % oCg) + 1]])]))

_forward_grouped_convolution(fn, x, W, b) ==
  LET G == fn.group
      N == x.shape[1]
      iC == x.shape[2]
      iH == x.shape[3]
      iW == x.shape[4]
      oC == W.shape[1]
      kH == W.shape[3]
      kW == W.shape[4]
      iCg == iC \div G
      oCg == oC \div G
      \* _x = rollaxis(x.reshape(N, G, iCg, iH, iW), 1); _x[g, ]
      _x(g) == Tensor(x.dtype, <<N, iCg, iH, iW>>,
                 IF ~Tracked(x) THEN <<>> ELSE
                 Arr([i \in 1..N |-> SubSeq(x.data[i], (g - 1) * iCg + 1, g * iCg)]))
      \* _W = W.reshape(G, oCg, iCg, kH, kW); _W[g, ]
      planes == Flatten(W.data)
      _W(g) == Tensor(W.dtype, <<oCg, iCg, kH, kW>>,
                 IF ~Tracked(W) THEN <<>> ELSE
                 Arr([j \in 1..oCg |->
                   SubSeq(planes, ((g - 1) * oCg + j - 1) * iCg + 1,
                                  ((g - 1) * oCg + j) * iCg)]))
      \* _b = b.reshape(G, oCg); _b[g, ]
      _bg(g) == IF b = NoTensor THEN NoTensor
                ELSE Tensor(b.dtype, <<oCg>>,
                       IF ~Tracked(b) THEN <<>>
                       ELSE SubSeq(b.data, (g - 1) * oCg + 1, g * oCg))
      \* the loop over the groups, in the order 0 .. G-1, stopping at an error
      loop[g \in 0..G] ==
        IF g = 0 THEN [raised |-> FALSE, at |-> "", _ys |-> <<>>, steps |-> <<>>]
        ELSE LET done == loop[g - 1]
                 _y == _forward_cpu_core(fn, _x(g), _W(g), _bg(g))
             IN  IF done.raised THEN done
                 ELSE [raised |-> _y.raised, at |-> _y.at,
                       _ys |-> Append(done._ys, _y.y),
                       steps |-> done.steps \o _y.steps]
      run == loop[G]
  IN  IF G * iCg # iC THEN ConvRaise("_x = x.reshape", <<>>)
      ELSE IF oC * W.shape[2] # G * oCg * iCg THEN ConvRaise("_W = W.reshape", <<>>)
      ELSE IF b # NoTensor /\ b.shape[1] # G * oCg THEN ConvRaise("_b = b.reshape", <<>>)
      ELSE IF run.raised THEN ConvRaise(run.at, run.steps)
      ELSE IF G * oCg # oC THEN ConvRaise("y = y.reshape", run.steps \o <<"stack">>)
      ELSE ConvOk(stack_reshape(run._ys, N, G, oCg), run.steps \o <<"stack">>)

\* every array of the model is a numpy array, so the test that numpy and cupy
\* arrays are not mixed never fails
Convolution2DFunction_forward_cpu(fn, inputs) ==
  LET x == inputs[1]
      W == inputs[2]
      b == IF Len(inputs) = 3 THEN inputs[3] ELSE NoTensor
  IN  IF fn.group > 1 THEN _forward_grouped_convolution(fn, x, W, b)
      ELSE _forward_cpu_core(fn, x, W, b)

\* FunctionNode.apply: the type check, then the forward computation
Convolution2DFunction_apply(fn, inputs) ==
  IF ~Convolution2DFunction_check_type_forward(inputs)
  THEN ConvRaise("check_type_forward", <<>>)
  ELSE Convolution2DFunction_forward_cpu(fn, inputs)

\* the gradient nodes that backward builds
deconvolution_2d(x, W, stride, pad, outsize, group, dilate) ==
  [fn |-> "deconvolution_2d", inputs |-> <<x, W>>, stride |-> stride, pad |-> pad,
   outsize |-> outsize, group |-> group, dilate |-> dilate]

Convolution2DGradW(conv2d, W_node) ==
  [kh |-> W_node.shape[3], kw |-> W_node.shape[4],
   sy |-> conv2d.sy, sx |-> conv2d.sx, ph |-> conv2d.ph, pw |-> conv2d.pw,
   dy |-> conv2d.dy, dx |-> conv2d.dx, cover_all |-> conv2d.cover_all,
   W_dtype |-> W_node.dtype, group |-> conv2d.group]

Convolution2DGradW_apply(gradw, inputs) ==
  [fn |-> "Convolution2DGradW", inputs |-> inputs, node |-> gradw]

sum(x, axis) == [fn |-> "sum", inputs |-> <<x>>, axis |-> axis]

\* variant: the three gradients are built whatever the graph asks for
backward_all_gradients(fn, retained, indexes, gy) ==
  LET x == retained[1]
      W == retained[2]
  IN  << deconvolution_2d(gy, W, <<fn.sy, fn.sx>>, <<fn.ph, fn.pw>>,
                          <<x.shape[3], x.shape[4]>>, fn.group, <<fn.dy, fn.dx>>),
         Convolution2DGradW_apply(Convolution2DGradW(fn, W), <<x, gy>>),
         sum(gy, <<0, 2, 3>>) >>

Convolution2DFunction_backward(fn, retained, indexes, gy) ==
  LET x == retained[1]
      W == retained[2]
      gx == deconvolution_2d(gy, W, <<fn.sy, fn.sx>>, <<fn.ph, fn.pw>>,
                             <<x.shape[3], x.shape[4]>>, fn.group, <<fn.dy, fn.dx>>)
      gW == Convolution2DGradW_apply(Convolution2DGradW(fn, W), <<x, gy>>)
      gb == sum(gy, <<0, 2, 3>>)
      ret0 == <<>>
      ret1 == IF 0 \in indexes THEN Append(ret0, gx) ELSE ret0
      ret2 == IF 1 \in indexes THEN Append(ret1, gW) ELSE ret1
      ret3 == IF 2 \in indexes THEN Append(ret2, gb) ELSE ret2
  IN  ret3

\* the node that a call of convolution_2d made by a backward builds
convolution_2d_node(x, W, stride, pad, cover_all, group, dilate) ==
  [fn |-> "convolution_2d", inputs |-> <<x, W>>, stride |-> stride, pad |-> pad,
   cover_all |-> cover_all, group |-> group, dilate |-> dilate]

\* variant: cover_all is not handed on to the convolution
Convolution2DGradW_backward_without_cover_all(gradw, retained, indexes, ggW) ==
  LET x == retained[1]
      gy == retained[2]
      gx == deconvolution_2d(gy, ggW, <<gradw.sy, gradw.sx>>, <<gradw.ph, gradw.pw>>,
                             <<x.shape[3], x.shape[4]>>, gradw.group,
                             <<gradw.dy, gradw.dx>>)
      ggy == convolution_2d_node(x, ggW, <<gradw.sy, gradw.sx>>, <<gradw.ph, gradw.pw>>,
                                 FALSE, gradw.group, <<gradw.dy, gradw.dx>>)
      ret1 == IF 0 \in indexes THEN <<gx>> ELSE <<>>
  IN  IF 1 \in indexes THEN Append(ret1, ggy) ELSE ret1

Convolution2DGradW_backward(gradw, retained, indexes, ggW) ==
  LET x == retained[1]
      gy == retained[2]
      gx == deconvolution_2d(gy, ggW, <<gradw.sy, gradw.sx>>, <<gradw.ph, gradw.pw>>,
                             <<x.shape[3], x.shape[4]>>, gradw.group,
                             <<gradw.dy, gradw.dx>>)
      ggy == convolution_2d_node(x, ggW, <<gradw.sy, gradw.sx>>, <<gradw.ph, gradw.pw>>,
                                 gradw.cover_all, gradw.group, <<gradw.dy, gradw.dx>>)
      ret0 == <<>>
      ret1 == IF 0 \in indexes THEN Append(ret0, gx) ELSE ret0
      ret2 == IF 1 \in indexes THEN Append(ret1, ggy) ELSE ret1
  IN  ret2

(* ------------------------------------------------------------------ *)
(* 2-D convolution: inputs and state machine                            *)
(* ------------------------------------------------------------------ *)

ShapeOnly(shape) == Tensor("float32", shape, <<>>)

XVal(i, c, iy, ix) == ((i + 2 * c + 3 * iy + 5 * ix) % 7) - 3
WVal(k, c, ky, kx) == ((3 * k + c + 2 * ky + 4 * kx) % 5) - 2
BVal(k) == 10 * k

XTensor(n, c, h, w) ==
  Tensor("float32", <<n, c, h, w>>,
    Arr([i \in 1..n |-> Arr([ch \in 1..c |-> Arr([iy \in 1..h |->
      Arr([ix \in 1..w |-> XVal(i, ch, iy, ix)])])])]))

WTensor(oC, c, kh, kw) ==
  Tensor("float32", <<oC, c, kh, kw>>,
    Arr([k \in 1..oC |-> Arr([ch \in 1..c |-> Arr([ky \in 1..kh |->
      Arr([kx \in 1..kw |-> WVal(k, ch, ky, kx)])])])]))

BTensor(oC) == Tensor("float32", <<oC>>, Arr([k \in 1..oC |-> BVal(k)]))

ConvCase(x, W, b, stride, pad, cover_all, group, dilate) ==
  [x |-> x, W |-> W, b |-> b, stride |-> stride, pad |-> pad,
   cover_all |-> cover_all, group |-> group, dilate |-> dilate]

\* the example of the documentation of convolution_2d
ExampleCases ==
  { ConvCase(ShapeOnly(<<10, 3, 30, 40>>), ShapeOnly(<<1, 3, 10, 10>>), ShapeOnly(<<1>>),
             <<5, 7>>, <<5, 5>>, cover_all, 1, <<1>>) : cover_all \in BOOLEAN }

\* one dimension runs over the sizes, kernels, strides, pads and dilations,
\* the other one is held
SizeCases ==
  { ConvCase(ShapeOnly(IF g[7] THEN <<1, 2, g[1], 4>> ELSE <<1, 2, 4, g[1]>>),
             ShapeOnly(IF g[7] THEN <<3, 2, g[2], 2>> ELSE <<3, 2, 2, g[2]>>),
             NoTensor,
             IF g[7] THEN <<g[3], 2>> ELSE <<2, g[3]>>,
             IF g[7] THEN <<g[4], 0>> ELSE <<0, g[4]>>,
             g[6], 1,
             IF g[7] THEN <<g[5], 1>> ELSE <<1, g[5]>>) :
      g \in (3..MaxSize) \X (1..3) \X (1..3) \X (0..1) \X (1..2) \X BOOLEAN \X BOOLEAN }

\* small arrays whose elements are followed, with and without groups
ValueCases ==
  { ConvCase(XTensor(2, 4, 2, 3), WTensor(v[1], 4 \div v[2], v[3], v[3]),
             IF v[4] THEN BTensor(v[1]) ELSE NoTensor,
             <<1>>, <<v[5]>>, FALSE, v[2], <<1>>) :
      v \in {2, 4} \X {1, 2} \X {1, 2} \X BOOLEAN \X {0, 1} }
  \cup
  { ConvCase(XTensor(1, 4, 3, 3), WTensor(4, 1, 2, 2), BTensor(4),
             <<2, 1>>, <<1>>, TRUE, 4, <<1>>),
    ConvCase(XTensor(1, 6, 2, 2), WTensor(3, 2, 1, 1), BTensor(3),
             <<1>>, <<0>>, FALSE, 3, <<1>>) }

\* inputs that break a precondition
BadCases ==
  { \* channel count of x differs from W's second dimension, one group
    ConvCase(XTensor(1, 2, 2, 2), WTensor(1, 3, 1, 1), NoTensor, <<1>>, <<0>>, FALSE, 1, <<1>>),
    ConvCase(ShapeOnly(<<1, 2, 3, 3>>), ShapeOnly(<<2, 3, 2, 2>>), ShapeOnly(<<2>>),
             <<1>>, <<0>>, FALSE, 1, <<1>>),
    \* the group count does not divide the input channels
    ConvCase(XTensor(1, 3, 2, 2), WTensor(2, 1, 1, 1), NoTensor, <<1>>, <<0>>, FALSE, 2, <<1>>),
    \* the group count does not divide the output channels
    ConvCase(XTensor(1, 4, 2, 2), WTensor(3, 2, 1, 1), NoTensor, <<1>>, <<0>>, FALSE, 2, <<1>>),
    ConvCase(XTensor(1, 6, 2, 2), WTensor(3, 2, 1, 1), NoTensor, <<1>>, <<0>>, FALSE, 2, <<1>>),
    ConvCase(XTensor(1, 6, 2, 2), WTensor(3, 2, 1, 1), BTensor(3), <<1>>, <<0>>, FALSE, 2, <<1>>),
    \* W's second dimension is not the channel count of a group
    ConvCase(XTensor(1, 4, 2, 2), WTensor(2, 4, 1, 1), NoTensor, <<1>>, <<0>>, FALSE, 2, <<1>>),
    \* rank, element type and bias length
    ConvCase(ShapeOnly(<<2, 3, 3>>), ShapeOnly(<<1, 2, 1, 1>>), NoTensor,
             <<1>>, <<0>>, FALSE, 1, <<1>>),
    ConvCase(Tensor("int32", <<1, 2, 3, 3>>, <<>>), ShapeOnly(<<1, 2, 1, 1>>), NoTensor,
             <<1>>, <<0>>, FALSE, 1, <<1>>),
    ConvCase(ShapeOnly(<<1, 2, 3, 3>>), ShapeOnly(<<2, 2, 1, 1>>), ShapeOnly(<<3>>),
             <<1>>, <<0>>, FALSE, 1, <<1>>) }

ConvCases == ExampleCases \cup SizeCases \cup ValueCases \cup BadCases

\* the index sets the graph can ask gradients for
IndexSets(n_in) == SUBSET (0..(n_in - 1))

InitConv ==
  /\ caller_mean = None
  /\ caller_var = None
  /\ self = BatchRenormalizationFunction(EpsVal, NoArray, NoArray, TRUE, Half,
                                         One, Zero, FALSE)
  /\ hist = <<>>
  /\ bwd = NoBackward
  /\ conv = NoConv
  /\ conv_out = NoConv

\* convolution_2d(x, W, b, stride, pad, cover_all, group=..., dilate=...): a new
\* function node is built and applied; it retains x and W.  Every call builds
\* its own node and nodes share nothing, so one node is followed.
convolution_2d(x, W, b, stride, pad, cover_all, group, dilate) ==
  LET fnode == Convolution2DFunction(stride, pad, cover_all, group, dilate)
      args == IF b = NoTensor THEN <<x, W>> ELSE <<x, W, b>>
  IN  /\ conv = NoConv
      /\ conv' = [op |-> "forward",
                  call |-> [stride |-> stride, pad |-> pad, cover_all |-> cover_all,
                            group |-> group, dilate |-> dilate],
                  fn |-> fnode, inputs |-> args, retained |-> <<x, W>>,
                  res |-> Convolution2DFunction_apply(fnode, args)]
      /\ conv_out' = NoConv
      /\ UNCHANGED bn_vars

\* the graph asks the node of the last forward call for the gradients of the
\* inputs in indexes, given the gradient gy of the output
ConvBackward(indexes) ==
  /\ conv.op = "forward"
  /\ ~conv.res.raised
  /\ indexes \in IndexSets(Len(conv.inputs))
  /\ LET gy == Tensor(conv.res.y.dtype, conv.res.y.shape, <<>>)
     IN  conv_out' = [op |-> "backward", indexes |-> indexes, gy |-> gy,
                      ret |-> Convolution2DFunction_backward(conv.fn, conv.retained,
                                                             indexes, gy)]
  /\ UNCHANGED conv
  /\ UNCHANGED bn_vars

\* the graph goes on through the Convolution2DGradW node that the last backward
\* built (it retains x and gy) and asks it for the gradients of the inputs in
\* indexes, given the gradient ggW of its output gW, which has the shape of W
GradWBackward(indexes) ==
  /\ conv.op = "forward"
  /\ conv_out.op = "backward"
  /\ 1 \in conv_out.indexes
  /\ LET gW == conv_out.ret[Cardinality(conv_out.indexes \cap {0, 1})]
         ggW == Tensor(gW.node.W_dtype, conv.retained[2].shape, <<>>)
     IN  conv_out' = [op |-> "gradw_backward", node |-> gW.node,
                      retained |-> gW.inputs, indexes |-> indexes, ggW |-> ggW,
                      ret |-> Convolution2DGradW_backward(gW.node, gW.inputs,
                                                          indexes, ggW)]
  /\ UNCHANGED conv
  /\ UNCHANGED bn_vars

NextConv ==
  \/ \E c \in ConvCases :
       convolution_2d(c.x, c.W, c.b, c.stride, c.pad, c.cover_all, c.group, c.dilate)
  \/ \E indexes \in SUBSET {0, 1, 2} : ConvBackward(indexes)
  \/ \E indexes \in SUBSET {0, 1} : GradWBackward(indexes)

SpecConv == InitConv /\ [][NextConv]_vars

(* ------------------------------------------------------------------ *)
(* Batch renormalization: properties                                   *)
(* ------------------------------------------------------------------ *)
Called == Len(hist) > 0
last == hist[Len(hist)]
Returned(c) == c.raised = ""
\* calls i..j were made on one instance
SameInstance(i, j) == \A k \in (i + 1)..j : hist[k].op = "__call__"

\* decay*old + (1-decay)*mean, per channel
UpdatedMean(old, x, decay) ==
  Arr([c \in 1..Len(old) |->
         RAdd(RMul(decay, old[c]), RMul(RSub(One, decay), x_mean(x)[c]))])

\* decay*old + (1-decay)*adjust*var with the biased batch variance var,
\* adjust = m/max(m-1,1) and m = N elements per channel
UpdatedVar(old, x, decay) ==
  LET m == Rat(Len(x))
      adj == RDiv(m, IF RLe(RSub(m, One), One) THEN One ELSE RSub(m, One))
  IN  Arr([c \in 1..Len(old) |->
             RAdd(RMul(decay, old[c]),
                  RMul(RMul(RSub(One, decay), adj), x_var(x)[c]))])

\* C1: after a training-mode forward call made with caller-supplied running_mean
\* and running_var, the caller's own arrays hold the updated statistics
C1_CallerStatisticsUpdated ==
  (/\ Called
   /\ Returned(last)
   /\ last.pre.train
   /\ last.pre.running_mean.obj = "caller"
   /\ last.pre.running_var.obj = "caller")
  => /\ caller_mean = self.running_mean.val
     /\ caller_var = self.running_var.val

\* C2: a forward call that raises leaves running_mean and running_var with the
\* values they had before the call
C2_FailedCallKeepsStatistics ==
  (Called /\ ~Returned(last))
  => /\ self.running_mean.val = last.pre.running_mean.val
     /\ self.running_var.val = last.pre.running_var.val

\* C3: after a training-mode forward call, running_mean = decay*old +
\* (1-decay)*mean and running_var = decay*old + (1-decay)*adjust*var, var being
\* the biased batch variance without eps
C3_RunningStatisticsFormula ==
  (/\ Called
   /\ Returned(last)
   /\ last.pre.train
   /\ last.pre.running_mean.obj # "None")
  => /\ self.running_mean.val
          = UpdatedMean(last.pre.running_mean.val, last.inputs[1], last.pre.decay)
     /\ self.running_var.val
          = UpdatedVar(last.pre.running_var.val, last.inputs[1], last.pre.decay)

\* the statistics an instance works with when a call starts: its arrays, or
\* the zero arrays created when running_mean is absent
EntryMean(pre, gamma) ==
  IF pre.running_mean.obj = "None" THEN zeros_like(gamma) ELSE pre.running_mean.val
EntryVar(pre, gamma) ==
  IF pre.running_mean.obj = "None" THEN zeros_like(gamma) ELSE pre.running_var.val

\* C4: with decay = 1 the running statistics of an instance stay what they were
\* at the first of any run of training-mode calls; with decay = 0 one
\* training-mode call leaves running_mean equal to the batch mean of that call
C4_DecayOneKeepsDecayZeroReplaces ==
  /\ \A i \in 1..Len(hist) : \A j \in i..Len(hist) :
       (/\ SameInstance(i, j)
        /\ hist[i].pre.train
        /\ hist[i].pre.decay = One
        /\ \A k \in i..j : Returned(hist[k]))
       => /\ hist[j].post.running_mean.val = EntryMean(hist[i].pre, hist[i].inputs[2])
          /\ hist[j].post.running_var.val = EntryVar(hist[i].pre, hist[i].inputs[2])
  /\ \A k \in 1..Len(hist) :
       (Returned(hist[k]) /\ hist[k].pre.train /\ hist[k].pre.decay = Zero)
       => hist[k].post.running_mean.val = x_mean(hist[k].inputs[1])

\* two training-mode calls with different batches on an instance with decay = 1
\* and statistics that differ from the batch means
C4_Witness ==
  /\ Len(hist) = 2
  /\ SameInstance(1, 2)
  /\ Returned(hist[1]) /\ Returned(hist[2])
  /\ self.train /\ self.decay = One
  /\ hist[1].pre.running_mean.obj = "caller"
  /\ hist[1].inputs[1] # hist[2].inputs[1]
  /\ self.running_mean.val # x_mean(hist[1].inputs[1])
  /\ self.running_mean.val # x_mean(hist[2].inputs[1])

\* the call normalized x with the batch statistics
TrainingMode(c) ==
  LET x == c.inputs[1]
      sd == Arr([ch \in 1..Len(x[1]) |-> Sqrt(RAdd(x_var(x)[ch], c.pre.eps))])
  IN  /\ c.post.std = sd
      /\ c.post.x_hat = _xhat(x, x_mean(x), sd)

\* the call normalized x with the supplied mean and var, used r = 1 and d = 0 and
\* left the running statistics alone
FixedMode(c) ==
  LET x == c.inputs[1]
      sd == Arr([ch \in 1..Len(c.inputs[5]) |-> Sqrt(RAdd(c.inputs[5][ch], c.pre.eps))])
  IN  /\ c.post.std = sd
      /\ c.post.x_hat = _xhat(x, c.inputs[4], sd)
      /\ c.post.r = Arr([ch \in 1..Len(c.inputs[2]) |-> SOne])
      /\ c.post.d = Arr([ch \in 1..Len(c.inputs[2]) |-> SZero])
      /\ c.post.x_hat_renorm
           = Arr([n \in 1..Len(x) |->
                    Arr([ch \in 1..Len(x[n]) |-> Terms(<<c.post.x_hat[n][ch]>>)])])
      /\ c.post.running_mean = c.pre.running_mean
      /\ c.post.running_var = c.pre.running_var

PlainBatchNormalization(x, gamma, beta, eps) ==
  Arr([n \in 1..Len(x) |->
         Arr([c \in 1..Len(x[n]) |->
                Terms(<<SMul(Surd(gamma[c]),
                             SDiv(Surd(RSub(x[n][c], x_mean(x)[c])),
                                  Sqrt(RAdd(x_var(x)[c], eps)))),
                        Surd(beta[c])>>)])])

\* C6: with rmax = 1 and dmax = 0 every training-mode call has r = 1 and d = 0 in
\* every channel, x_hat_renorm = x_hat and y = gamma*x_hat + beta
C6_DegeneratesToBatchNormalization ==
  \A k \in 1..Len(hist) :
    LET c == hist[k] IN
    (Returned(c) /\ c.pre.train /\ c.pre.rmax = One /\ c.pre.dmax = Zero)
    => /\ \A ch \in 1..Len(c.post.r) : c.post.r[ch] = SOne
       /\ \A ch \in 1..Len(c.post.d) : c.post.d[ch] = SZero
       /\ \A n \in 1..Len(c.inputs[1]) : \A ch \in 1..Len(c.inputs[2]) :
            c.post.x_hat_renorm[n][ch] = Terms(<<c.post.x_hat[n][ch]>>)
       /\ c.y = PlainBatchNormalization(c.inputs[1], c.inputs[2], c.inputs[3], c.pre.eps)

\* the second training-mode call of an instance with rmax = 1 and dmax = 0, whose
\* batch deviates from the running statistics in scale and in mean
C6_Witness ==
  /\ Len(hist) = 2
  /\ SameInstance(1, 2)
  /\ Returned(hist[1]) /\ Returned(hist[2])
  /\ self.train /\ self.rmax = One /\ self.dmax = Zero
  /\ hist[2].pre.running_mean.val # hist[1].pre.running_mean.val
  /\ \E ch \in 1..Len(self.std) :
       /\ self.std[ch] # Sqrt(RAdd(hist[2].pre.running_var.val[ch], self.eps))
       /\ x_mean(hist[2].inputs[1])[ch] # hist[2].pre.running_mean.val[ch]
       /\ \E n \in 1..Len(self.x_hat) : self.x_hat[n][ch] # SZero

(* ------------------------------------------------------------------ *)
(* 2-D convolution: properties                                          *)
(* ------------------------------------------------------------------ *)

Forwarded == conv.op = "forward"
ForwardReturned == Forwarded /\ ~conv.res.raised
FirstOf(arg) == arg[1]
SecondOf(arg) == arg[Len(arg)]
IsExample ==
  /\ Forwarded
  /\ conv.inputs[1].shape = <<10, 3, 30, 40>>
  /\ conv.inputs[2].shape = <<1, 3, 10, 10>>
  /\ conv.call.stride = <<5, 7>>
  /\ conv.call.pad = <<5, 5>>
  /\ conv.call.group = 1

\* C7: with one group the output has shape (N, Cout, out_h, out_w) where
\* out_h = floor((H + 2*ph - dy*(kh-1) - 1) / sy) + 1 when cover_all is false;
\* with cover_all it is one larger when the last stride does not reach the
\* padded edge and equal otherwise (for dilation 1:
\* floor((H + 2*ph - kh + sy - 1) / sy) + 1); the same holds for the width; the
\* example x (10,3,30,40), W (1,3,10,10), stride (5,7), pad (5,5) gives
\* (10,1,7,6), and (10,1,7,7) with cover_all
C7_OutputShape ==
  (ForwardReturned /\ conv.call.group = 1) =>
    LET x == conv.inputs[1]
        W == conv.inputs[2]
        y == conv.res.y
        cover_all == conv.call.cover_all
        SizeOk(out, size, k, s, p, d) ==
          LET reach == size + 2 * p - d * (k - 1) - 1
              plain == (reach \div s) + 1
          IN  /\ ~cover_all => out = plain
              /\ (cover_all /\ reach % s # 0) => out = plain + 1
              /\ (cover_all /\ reach % s = 0) => out = plain
              /\ (cover_all /\ d = 1) => out = ((size + 2 * p - k + s - 1) \div s) + 1
    IN  /\ Len(y.shape) = 4
        /\ y.shape[1] = x.shape[1]
        /\ y.shape[2] = W.shape[1]
        /\ SizeOk(y.shape[3], x.shape[3], W.shape[3], FirstOf(conv.call.stride),
                  FirstOf(conv.call.pad), FirstOf(conv.call.dilate))
        /\ SizeOk(y.shape[4], x.shape[4], W.shape[4], SecondOf(conv.call.stride),
                  SecondOf(conv.call.pad), SecondOf(conv.call.dilate))
        /\ IsExample =>
             y.shape = IF cover_all THEN <<10, 1, 7, 7>> ELSE <<10, 1, 7, 6>>

\* C7 (case reached): the example was run with cover_all and returned an
\* output whose width is one larger than without cover_all
C7_Witness ==
  /\ ForwardReturned
  /\ IsExample
  /\ conv.call.cover_all
  /\ conv.res.y.shape = <<10, 1, 7, 7>>

\* the weight of the equivalent ungrouped convolution: each group's filter
\* padded with zeros to the full width of the input channels
BlockDiagonal(W, g, iC) ==
  LET oC == W.shape[1]
      iCg == iC \div g
      oCg == oC \div g
      zero == Arr([ky \in 1..W.shape[3] |-> Arr([kx \in 1..W.shape[4] |-> 0])])
  IN  Tensor(W.dtype, <<oC, iC, W.shape[3], W.shape[4]>>,
        Arr([k \in 1..oC |-> Arr([c \in 1..iC |->
          IF (c - 1) \div iCg = (k - 1) \div oCg
          THEN W.data[k][((c - 1) % iCg) + 1]
          ELSE zero])]))

GroupedAndFollowed ==
  /\ Forwarded
  /\ conv.call.group > 1
  /\ Len(conv.inputs[1].shape) = 4
  /\ Len(conv.inputs[2].shape) = 4
  /\ Tracked(conv.inputs[1])
  /\ Tracked(conv.inputs[2])
  /\ conv.inputs[1].shape[2] % conv.call.group = 0
  /\ conv.inputs[2].shape[1] % conv.call.group = 0
  /\ conv.inputs[2].shape[2] = conv.inputs[1].shape[2] \div conv.call.group

\* C8: a grouped convolution (the group count dividing Cin and Cout) returns
\* what the ungrouped convolution returns for the block-diagonal weight, with
\* the same bias: the channels are laid out group-major, channel k sees only
\* the input channels of its group and gets the bias of channel k
C8_GroupedEqualsBlockDiagonal ==
  GroupedAndFollowed =>
    LET x == conv.inputs[1]
        W == conv.inputs[2]
        ungrouped == Convolution2DFunction(conv.call.stride, conv.call.pad,
                                           conv.call.cover_all, 1, conv.call.dilate)
        args == IF Len(conv.inputs) = 3
                THEN <<x, BlockDiagonal(W, conv.call.group, x.shape[2]), conv.inputs[3]>>
                ELSE <<x, BlockDiagonal(W, conv.call.group, x.shape[2])>>
        expected == Convolution2DFunction_apply(ungrouped, args)
    IN  /\ conv.res.raised = expected.raised
        /\ conv.res.y = expected.y

\* C8 (case reached): a convolution with two groups of two output channels
\* each, a 2x2 kernel and a bias has returned
C8_Witness ==
  /\ GroupedAndFollowed
  /\ ~conv.res.raised
  /\ conv.call.group = 2
  /\ conv.inputs[2].shape = <<4, 2, 2, 2>>
  /\ Len(conv.inputs) = 3
  /\ Tracked(conv.res.y)

BackwardDone == conv_out.op = "backward"

\* C9: backward returns one gradient per requested index and no other, in
\* ascending index order; the gradient of x is deconvolution_2d of (gy, W) with
\* the stride, pad, dilation and group of the call and outsize the spatial
\* shape of x, the gradient of W is Convolution2DGradW applied to (x, gy), the
\* gradient of b is the sum of gy over the axes (0, 2, 3)
C9_OnlyRequestedGradients ==
  BackwardDone =>
    LET x == conv.inputs[1]
        W == conv.inputs[2]
        gy == conv_out.gy
        ret == conv_out.ret
        indexes == conv_out.indexes
        pos(i) == Cardinality({j \in indexes : j <= i})
    IN  /\ Len(ret) = Cardinality(indexes)
        /\ 0 \in indexes =>
             /\ ret[pos(0)].fn = "deconvolution_2d"
             /\ ret[pos(0)].inputs = <<gy, W>>
             /\ ret[pos(0)].stride = <<FirstOf(conv.call.stride), SecondOf(conv.call.stride)>>
             /\ ret[pos(0)].pad = <<FirstOf(conv.call.pad), SecondOf(conv.call.pad)>>
             /\ ret[pos(0)].dilate = <<FirstOf(conv.call.dilate), SecondOf(conv.call.dilate)>>
             /\ ret[pos(0)].group = conv.call.group
             /\ ret[pos(0)].outsize = <<x.shape[3], x.shape[4]>>
        /\ 1 \in indexes =>
             /\ ret[pos(1)].fn = "Convolution2DGradW"
             /\ ret[pos(1)].inputs = <<x, gy>>
        /\ 2 \in indexes =>
             /\ ret[pos(2)].fn = "sum"
             /\ ret[pos(2)].inputs = <<gy>>
             /\ ret[pos(2)].axis = <<0, 2, 3>>

\* C9 (case reached): the graph asked for the gradients of x and b only and
\* got two gradients
C9_Witness ==
  /\ BackwardDone
  /\ conv_out.indexes = {0, 2}
  /\ Len(conv_out.ret) = 2
  /\ conv_out.ret[2].fn = "sum"

StructuralViolation ==
  /\ Forwarded
  /\ Len(conv.inputs[1].shape) = 4
  /\ Len(conv.inputs[2].shape) = 4
  /\ \/ conv.call.group = 1 /\ conv.inputs[1].shape[2] # conv.inputs[2].shape[2]
     \/ conv.inputs[1].shape[2] % conv.call.group # 0
     \/ conv.inputs[2].shape[1] % conv.call.group # 0

\* C10: a forward call with one group and a channel count of x different from
\* W's second dimension, or with a group count that does not divide the input
\* or the output channels, is rejected by check_type_forward, before im2col or
\* the contraction has run
C10_RejectedByTypeCheck ==
  StructuralViolation =>
    /\ conv.res.raised
    /\ conv.res.at = "check_type_forward"
    /\ conv.res.steps = <<>>

(* ------------------------------------------------------------------ *)
(* Batch renormalization: absent statistics, bounds and order of r, d  *)
(* ------------------------------------------------------------------ *)

\* the call got past the type check of its inputs
Admitted(c) == c.raised # "check_type_forward"

\* C13: a training-mode forward call on an instance of which running_mean or
\* running_var (or both) is absent starts from zero arrays shaped like gamma,
\* so that it returns with running_mean = (1-decay)*mean and
\* running_var = (1-decay)*adjust*var of the batch
C13_AbsentStatisticsStartFromZero ==
  \A k \in 1..Len(hist) :
    LET c == hist[k] IN
    (/\ Admitted(c)
     /\ c.pre.train
     /\ (c.pre.running_mean.obj = "None" \/ c.pre.running_var.obj = "None"))
    => /\ Returned(c)
       /\ c.post.running_mean.val
            = UpdatedMean(zeros_like(c.inputs[2]), c.inputs[1], c.pre.decay)
       /\ c.post.running_var.val
            = UpdatedVar(zeros_like(c.inputs[2]), c.inputs[1], c.pre.decay)

\* lo <= v <= hi
Within(v, lo, hi) == SLe(lo, v) /\ SLe(v, hi)
\* v brought into [lo, hi]
Bounded(v, lo, hi) == IF SLe(v, lo) THEN lo ELSE IF SLe(hi, v) THEN hi ELSE v

\* std / sqrt(running_var + eps) and (mean - running_mean) / sqrt(running_var +
\* eps) of channel ch for batch x and the running statistics rm, rv
RawR(x, rv, eps, ch) ==
  SDiv(Sqrt(RAdd(x_var(x)[ch], eps)), Sqrt(RAdd(At(rv, ch), eps)))
RawD(x, rm, rv, eps, ch) ==
  SDiv(Surd(RSub(x_mean(x)[ch], At(rm, ch))), Sqrt(RAdd(At(rv, ch), eps)))

\* C14: after every training-mode forward call, each channel has
\* 1/rmax <= r <= rmax and -dmax <= d <= dmax, also with keep_r_d_fixed
C14_CorrectionsWithinBounds ==
  \A k \in 1..Len(hist) :
    LET c == hist[k] IN
    (Returned(c) /\ c.pre.train) =>
      /\ \A ch \in 1..Len(c.post.r) :
           Within(c.post.r[ch], Surd(RDiv(One, c.pre.rmax)), Surd(c.pre.rmax))
      /\ \A ch \in 1..Len(c.post.d) :
           Within(c.post.d[ch], Surd(RNeg(c.pre.dmax)), Surd(c.pre.dmax))

\* C14 (case reached): a training-mode call whose batch would give, in one
\* channel, an r above rmax and a d above dmax had they not been clipped
C14_Witness ==
  /\ Called
  /\ Returned(last)
  /\ last.pre.train
  /\ last.pre.running_mean.obj = "caller"
  /\ \E ch \in 1..Len(last.inputs[2]) :
       /\ ~SLe(RawR(last.inputs[1], last.pre.running_var.val, last.pre.eps, ch),
               Surd(last.pre.rmax))
       /\ ~SLe(RawD(last.inputs[1], last.pre.running_mean.val,
                    last.pre.running_var.val, last.pre.eps, ch),
               Surd(last.pre.dmax))
       /\ last.post.r[ch] = Surd(last.pre.rmax)
       /\ last.post.d[ch] = Surd(last.pre.dmax)

\* r and d of channel ch, clipped, for the batch of call c and the running
\* statistics rm, rv
ClippedR(c, rv, ch) ==
  Bounded(RawR(c.inputs[1], rv, c.pre.eps, ch),
          Surd(RDiv(One, c.pre.rmax)), Surd(c.pre.rmax))
ClippedD(c, rm, rv, ch) ==
  Bounded(RawD(c.inputs[1], rm, rv, c.pre.eps, ch),
          Surd(RNeg(c.pre.dmax)), Surd(c.pre.dmax))
\* the call computes r and d
ComputesRD(c) == c.pre.train /\ (~c.pre.keep_r_d_fixed \/ c.pre.r = None)

\* C15: in a training-mode call r and d come from the running statistics as
\* they were when the call started and from the mean and std of its own batch;
\* y is built with these r and d, and the running statistics are written only
\* after x_hat_renorm and y exist
C15_CorrectionsFromStatisticsBeforeUpdate ==
  \A k \in 1..Len(hist) :
    LET c == hist[k]
        x == c.inputs[1]
        gamma == c.inputs[2]
        beta == c.inputs[3]
        rm == EntryMean(c.pre, gamma)
        rv == EntryVar(c.pre, gamma)
    IN  /\ (Returned(c) /\ ComputesRD(c)) =>
             \A ch \in 1..Len(gamma) :
               /\ c.post.r[ch] = ClippedR(c, rv, ch)
               /\ c.post.d[ch] = ClippedD(c, rm, rv, ch)
        /\ (Returned(c) /\ c.pre.train) =>
             \A n \in 1..Len(x) : \A ch \in 1..Len(gamma) :
               c.y[n][ch] =
                 Terms(TScale(Surd(gamma[ch]),
                              Terms(<<SMul(c.post.x_hat[n][ch], At(c.post.r, ch)),
                                      At(c.post.d, ch)>>))
                       \o <<Surd(beta[ch])>>)
        /\ (c.post.running_mean.val # c.pre.running_mean.val
            \/ c.post.running_var.val # c.pre.running_var.val) =>
             (c.pre.running_mean.obj = "None" \/ c.post.x_hat_renorm # Unset)

\* C15 (case reached): the second training-mode call of an instance whose
\* statistics the first call has changed and which it changes again, r or d
\* being different from what the statistics after the call would give
C15_Witness ==
  /\ Len(hist) = 2
  /\ SameInstance(1, 2)
  /\ Returned(hist[1]) /\ Returned(hist[2])
  /\ self.train /\ ~self.keep_r_d_fixed
  /\ hist[2].pre.running_var.val # hist[1].pre.running_var.val
  /\ hist[2].post.running_var.val # hist[2].pre.running_var.val
  /\ \E ch \in 1..Len(self.r) :
       \/ self.r[ch] # ClippedR(hist[2], hist[2].post.running_var.val, ch)
       \/ self.d[ch] # ClippedD(hist[2], hist[2].post.running_mean.val,
                                hist[2].post.running_var.val, ch)

\* C16: with keep_r_d_fixed, once r and d of an instance are set a later call
\* of the instance leaves them as they are; they are set by the first call that
\* reaches their computation; without keep_r_d_fixed every training-mode call
\* sets them from its batch and the running statistics it starts with
C16_KeepRDFixed ==
  \A k \in 1..Len(hist) :
    LET c == hist[k]
        gamma == c.inputs[2]
    IN  /\ (c.pre.keep_r_d_fixed /\ c.pre.r # None) =>
             /\ c.post.r = c.pre.r
             /\ c.post.d = c.pre.d
        /\ (Returned(c) /\ c.pre.train /\ c.pre.keep_r_d_fixed /\ c.pre.r = None) =>
             \A ch \in 1..Len(gamma) :
               /\ c.post.r[ch] = ClippedR(c, EntryVar(c.pre, gamma), ch)
               /\ c.post.d[ch] = ClippedD(c, EntryMean(c.pre, gamma),
                                          EntryVar(c.pre, gamma), ch)
        /\ (Returned(c) /\ c.pre.train /\ ~c.pre.keep_r_d_fixed) =>
             \A ch \in 1..Len(gamma) :
               /\ c.post.r[ch] = ClippedR(c, EntryVar(c.pre, gamma), ch)
               /\ c.post.d[ch] = ClippedD(c, EntryMean(c.pre, gamma),
                                          EntryVar(c.pre, gamma), ch)

\* C16 (case reached): the second call of an instance with keep_r_d_fixed, with
\* another batch and updated statistics, which would give another r or d
C16_Witness ==
  /\ Len(hist) = 2
  /\ SameInstance(1, 2)
  /\ Returned(hist[1]) /\ Returned(hist[2])
  /\ self.train /\ self.keep_r_d_fixed
  /\ hist[1].inputs[1] # hist[2].inputs[1]
  /\ hist[2].pre.running_mean.val # hist[1].pre.running_mean.val
  /\ self.r = hist[1].post.r
  /\ self.d = hist[1].post.d
  /\ \E ch \in 1..Len(self.r) :
       \/ self.r[ch] # ClippedR(hist[2], hist[2].pre.running_var.val, ch)
       \/ self.d[ch] # ClippedD(hist[2], hist[2].pre.running_mean.val,
                                hist[2].pre.running_var.val, ch)

(* ------------------------------------------------------------------ *)
(* 2-D convolution: the weight-gradient operator                        *)
(* ------------------------------------------------------------------ *)

GradWBackwardDone == conv_out.op = "gradw_backward"

\* C12: the Convolution2DGradW node has the kernel size, stride, pad, dilation,
\* cover_all, group and weight dtype of the convolution it was built from, and
\* its backward returns one gradient per requested index of {0, 1} in ascending
\* order: for x, deconvolution_2d of (gy, ggW) with that stride, pad, dilation
\* and group and outsize the spatial shape of x; for gy, convolution_2d of
\* (x, ggW) with that stride, pad, dilation, group and cover_all
C12_GradWKeepsGeometry ==
  GradWBackwardDone =>
    LET x == conv.inputs[1]
        W == conv.inputs[2]
        node == conv_out.node
        gy == conv_out.retained[2]
        ggW == conv_out.ggW
        ret == conv_out.ret
        indexes == conv_out.indexes
        stride == <<FirstOf(conv.call.stride), SecondOf(conv.call.stride)>>
        pad == <<FirstOf(conv.call.pad), SecondOf(conv.call.pad)>>
        dilate == <<FirstOf(conv.call.dilate), SecondOf(conv.call.dilate)>>
        pos(i) == Cardinality({j \in indexes : j <= i})
    IN  /\ <<node.kh, node.kw>> = <<W.shape[3], W.shape[4]>>
        /\ <<node.sy, node.sx>> = stride
        /\ <<node.ph, node.pw>> = pad
        /\ <<node.dy, node.dx>> = dilate
        /\ node.cover_all = conv.call.cover_all
        /\ node.group = conv.call.group
        /\ node.W_dtype = W.dtype
        /\ conv_out.retained[1] = x
        /\ gy.shape = conv.res.y.shape
        /\ ggW.shape = W.shape
        /\ Len(ret) = Cardinality(indexes)
        /\ 0 \in indexes =>
             /\ ret[pos(0)].fn = "deconvolution_2d"
             /\ ret[pos(0)].inputs = <<gy, ggW>>
             /\ ret[pos(0)].stride = stride
             /\ ret[pos(0)].pad = pad
             /\ ret[pos(0)].dilate = dilate
             /\ ret[pos(0)].group = conv.call.group
             /\ ret[pos(0)].outsize = <<x.shape[3], x.shape[4]>>
        /\ 1 \in indexes =>
             /\ ret[pos(1)].fn = "convolution_2d"
             /\ ret[pos(1)].inputs = <<x, ggW>>
             /\ ret[pos(1)].stride = stride
             /\ ret[pos(1)].pad = pad
             /\ ret[pos(1)].dilate = dilate
             /\ ret[pos(1)].group = conv.call.group
             /\ ret[pos(1)].cover_all = conv.call.cover_all

\* C12 (case reached): both gradients were asked of the weight-gradient node
\* of a grouped convolution with cover_all and two different strides
C12_Witness ==
  /\ GradWBackwardDone
  /\ conv_out.indexes = {0, 1}
  /\ Len(conv_out.ret) = 2
  /\ conv.call.cover_all
  /\ conv.call.group > 1
  /\ FirstOf(conv.call.stride) # SecondOf(conv.call.stride)
  /\ conv_out.ret[2].cover_all

(* ------------------------------------------------------------------ *)
(* Batch renormalization: backward                                     *)
(* ------------------------------------------------------------------ *)
BackwardMade == bwd.op = "backward"
\* sqrt(var + eps) per channel
StdWithEps(var, eps) == Arr([c \in 1..Len(var) |-> Sqrt(RAdd(var[c], eps))])

\* C11: the backward pass through a returned fixed-statistics call (5 inputs,
\* train not set) works with std = sqrt(var + eps), the std the forward call
\* normalized x with, and returns the five gradients gx = gs*gy,
\* ggamma = sum(gy*x_hat), gbeta = sum(gy), gmean = -gs*gbeta,
\* gvar = -0.5*gamma/var*ggamma, gs = gamma/std, in the order of the inputs
C11_FixedBackwardStdWithEps ==
  (BackwardMade /\ Len(bwd.inputs) = 5 /\ ~last.pre.train) =>
    LET std == StdWithEps(bwd.inputs[5], last.pre.eps)
    IN  /\ last.post.std = std
        /\ bwd.res.raised = ""
        /\ Len(bwd.res.ret) = 5
        /\ bwd.res.ret = backward_fixed(bwd.inputs[1], bwd.inputs[2], bwd.inputs[4],
                                        bwd.inputs[5], std, bwd.gy)

\* the gradients are those of the training formula, from the x_hat,
\* x_hat_renorm, std and r the call left on the instance
UsesTrainingFormula(c) ==
  /\ bwd.res.raised = ""
  /\ Len(bwd.res.ret) = 3
  /\ bwd.res.ret = backward_train(c.post, c.inputs[2], bwd.gy,
                                  (Len(c.inputs[1]) * Len(c.inputs[1][1]))
                                    \div Len(c.inputs[2]))

\* the gradients are those of the fixed-statistics formula as backward has it
UsesFixedFormula(c) ==
  /\ bwd.res.raised = ""
  /\ Len(bwd.res.ret) = 5
  /\ Len(c.inputs) = 5
  /\ bwd.res.ret = backward_fixed(c.inputs[1], c.inputs[2], c.inputs[4], c.inputs[5],
                                  backward_std(c.inputs[5]), bwd.gy)

\* C17: forward and backward of one instance agree on the mode: backward uses
\* the training formula and returns 3 gradients exactly when the forward call
\* normalized with the batch statistics, it uses the fixed-statistics formula
\* and returns 5 gradients exactly when the forward call normalized with the
\* supplied mean and var, and no call with 3 inputs on an instance without
\* train returns
C17_ForwardAndBackwardAgree ==
  /\ \A k \in 1..Len(hist) :
       ((~hist[k].pre.train) /\ Len(hist[k].inputs) = 3) => ~Returned(hist[k])
  /\ BackwardMade =>
       /\ UsesTrainingFormula(last) <=> TrainingMode(last)
       /\ UsesFixedFormula(last) <=> (Len(last.inputs) = 5 /\ FixedMode(last))

====
